---- MODULE Spec2Model ----
(***************************************************************************)
(* The useSnakeGame hook of rudiss/snake-game as a state machine.          *)
(*                                                                         *)
(* The state is the hook's single GameState value (useState) together with *)
(* the boardSize argument the hook's callbacks close over.  Each state     *)
(* updater of the hook (startGame, changeDirection, moveSnake) is one      *)
(* atomic action.  Math.random is a nondeterministic choice of the index   *)
(* into the list of empty cells.                                           *)
(***************************************************************************)
EXTENDS Integers, Sequences, FiniteSets

\* ---------------------------------------------------------------- constants
\* constants/game.ts
POINTS_PER_FOOD == 3
WINNING_SCORE == 30
INITIAL_SNAKE_LENGTH == 3
DEFAULT_BOARD_SIZE == 20

\* ------------------------------------------------------------------- bounds
\* The hook takes any boardSize; the model runs every board from the smallest
\* one the configuration allows (boardSize >= INITIAL_SNAKE_LENGTH) up to
\* MaxBoardSize.
MaxBoardSize == 4

\* The model follows each game for at most MaxTicks calls of moveSnake.
MaxTicks == 3

\* getRandomEmptyPosition on its own is called with every board size from 0
\* to MaxSelectorSize.
MaxSelectorSize == 2

\* React holds at most MaxPending state updates between two renders.
MaxPending == 2

\* Where Math.random() is followed as a value, it takes the RandomSteps
\* values k / RandomSteps, 0 <= k < RandomSteps.
RandomSteps == 2

BoardSizes == INITIAL_SNAKE_LENGTH..MaxBoardSize

\* -------------------------------------------------------------------- types
\* type Direction
Directions == {"UP", "DOWN", "LEFT", "RIGHT"}

\* type GameStatus
GameStatuses == {"NOT_STARTED", "PLAYING", "GAME_OVER", "WON"}

\* nextDirection: Direction | null
NoDirection == "null"

VARIABLES
    boardSize,   \* the boardSize argument of useSnakeGame
    gameState,   \* the GameState held by useState
    ticks,       \* calls of moveSnake the model has followed in the current game
    hist,        \* the last operation: its name, its argument, and the state it was
                 \* applied to (for startGame, which reads no previous state, the
                 \* status and queued direction of the state it replaced)
    gameLoop,    \* the interval effect: the timers running, gameLoopRef, the
                 \* status the effect last ran for, whether it left a cleanup
    pending,     \* the state updates React has queued and not yet applied
    serial,      \* the state that results from applying every update as it arrives
    selection    \* one call of getRandomEmptyPosition on its own

vars == <<boardSize, gameState, ticks, hist, gameLoop, pending, serial, selection>>

\* ------------------------------------------------------------ pure helpers
\* getInitialSnake with the offset of the segments forgotten.
getInitialSnake_NoOffset(size) ==
    LET center == size \div 2
    IN  [i \in 1..INITIAL_SNAKE_LENGTH |-> [x |-> center, y |-> center]]

\* getInitialSnake with the body laid out to the right of the head.
getInitialSnake_ExtendsRight(size) ==
    LET center == size \div 2
    IN  [i \in 1..INITIAL_SNAKE_LENGTH |-> [x |-> center + (i - 1), y |-> center]]

\* getInitialSnake: head at the centre, body extending to the left.
getInitialSnake(size) ==
    LET center == size \div 2
    IN  [i \in 1..INITIAL_SNAKE_LENGTH |-> [x |-> center - (i - 1), y |-> center]]

\* The key `${x},${y}` of a position in the occupied set.
PositionKey(p) == <<p.x, p.y>>

\* BoardCells with the outer loop stopping one column early.
BoardCells_StopsEarly(size) ==
    [k \in 1..((size - 1) * size) |-> [x |-> (k - 1) \div size, y |-> (k - 1) % size]]

\* The cells of the board in the order of the two nested loops
\* (x outer, y inner).
BoardCells(size) ==
    [k \in 1..(size * size) |-> [x |-> (k - 1) \div size, y |-> (k - 1) % size]]

\* AvailablePositions with the occupied cells not filtered out.
AvailablePositions_IgnoresSnake(size, snake) == BoardCells(size)

\* The list `available` built by getRandomEmptyPosition.
AvailablePositions(size, snake) ==
    LET occupied == {PositionKey(snake[i]) : i \in 1..Len(snake)}
        IsFree(c) == PositionKey(c) \notin occupied
    IN  SelectSeq(BoardCells(size), IsFree)

\* getRandomEmptyPosition throws when `available` is empty.
NoEmptyPosition(size, snake) == Len(AvailablePositions(size, snake)) = 0

\* The values Math.floor(Math.random() * available.length) can take.
RandomIndices(size, snake) == 0..(Len(AvailablePositions(size, snake)) - 1)

\* getRandomEmptyPosition choosing among all the cells of the board.
getRandomEmptyPosition_AnyCell(size, snake, randomIndex) ==
    BoardCells(size)[randomIndex + 1]

\* getRandomEmptyPosition, given the random index drawn.
getRandomEmptyPosition(size, snake, randomIndex) ==
    AvailablePositions(size, snake)[randomIndex + 1]

\* getNextPosition with the two vertical steps exchanged.
getNextPosition_UpDownSwapped(head, direction) ==
    CASE direction = "UP"    -> [x |-> head.x, y |-> head.y + 1]
      [] direction = "DOWN"  -> [x |-> head.x, y |-> head.y - 1]
      [] direction = "LEFT"  -> [x |-> head.x - 1, y |-> head.y]
      [] direction = "RIGHT" -> [x |-> head.x + 1, y |-> head.y]
      [] OTHER               -> head

\* getNextPosition
getNextPosition(head, direction) ==
    CASE direction = "UP"    -> [x |-> head.x, y |-> head.y - 1]
      [] direction = "DOWN"  -> [x |-> head.x, y |-> head.y + 1]
      [] direction = "LEFT"  -> [x |-> head.x - 1, y |-> head.y]
      [] direction = "RIGHT" -> [x |-> head.x + 1, y |-> head.y]
      [] OTHER               -> head

\* isOppositeDirection true for equal directions as well.
isOppositeDirection_SameToo(dir1, dir2) ==
    \/ dir1 = dir2
    \/ (dir1 = "UP" /\ dir2 = "DOWN")
    \/ (dir1 = "DOWN" /\ dir2 = "UP")
    \/ (dir1 = "LEFT" /\ dir2 = "RIGHT")
    \/ (dir1 = "RIGHT" /\ dir2 = "LEFT")

\* isOppositeDirection with the horizontal pairs forgotten.
isOppositeDirection_VerticalOnly(dir1, dir2) ==
    \/ (dir1 = "UP" /\ dir2 = "DOWN")
    \/ (dir1 = "DOWN" /\ dir2 = "UP")

\* isOppositeDirection
isOppositeDirection(dir1, dir2) ==
    \/ (dir1 = "UP" /\ dir2 = "DOWN")
    \/ (dir1 = "DOWN" /\ dir2 = "UP")
    \/ (dir1 = "LEFT" /\ dir2 = "RIGHT")
    \/ (dir1 = "RIGHT" /\ dir2 = "LEFT")

\* `a || b` on Direction | null: null is falsy, every direction is truthy.
OrElse(a, b) == IF a = NoDirection THEN b ELSE a

\* ---------------------------------------------------------- state updaters
\* The state built by the useState initialiser (status NOT_STARTED) and by
\* startGame (status PLAYING).
FreshState(size, status, randomIndex) ==
    LET initialSnake == getInitialSnake(size)
    IN  [snake         |-> initialSnake,
         direction     |-> "RIGHT",
         nextDirection |-> NoDirection,
         food          |-> getRandomEmptyPosition(size, initialSnake, randomIndex),
         score         |-> 0,
         status        |-> status,
         boardSize     |-> size]

\* startGame reusing the state of the useState initialiser as it is.
startGame_NotStarted(size, randomIndex) == FreshState(size, "NOT_STARTED", randomIndex)

\* startGame
startGame(size, randomIndex) == FreshState(size, "PLAYING", randomIndex)

\* changeDirection without its guard on the status.
changeDirection_NoStatusGuard(prev, newDirection) ==
    LET lastDirection == OrElse(prev.nextDirection, prev.direction)
    IN  IF isOppositeDirection(lastDirection, newDirection)
        THEN prev
        ELSE [prev EXCEPT !.nextDirection = newDirection]

\* changeDirection keeping the direction already queued, if there is one.
changeDirection_KeepsFirst(prev, newDirection) ==
    IF prev.status # "PLAYING" THEN prev
    ELSE LET lastDirection == OrElse(prev.nextDirection, prev.direction)
         IN  IF isOppositeDirection(lastDirection, newDirection)
                \/ prev.nextDirection \in Directions
             THEN prev
             ELSE [prev EXCEPT !.nextDirection = newDirection]

\* changeDirection turning the snake at once as well as queueing the turn.
changeDirection_SetsDirection(prev, newDirection) ==
    IF prev.status # "PLAYING" THEN prev
    ELSE LET lastDirection == OrElse(prev.nextDirection, prev.direction)
         IN  IF isOppositeDirection(lastDirection, newDirection)
             THEN prev
             ELSE [prev EXCEPT !.nextDirection = newDirection,
                               !.direction = newDirection]

\* The updater of changeDirection.
changeDirection(prev, newDirection) ==
    IF prev.status # "PLAYING" THEN prev
    ELSE LET lastDirection == OrElse(prev.nextDirection, prev.direction)
         IN  IF isOppositeDirection(lastDirection, newDirection)
             THEN prev
             ELSE [prev EXCEPT !.nextDirection = newDirection]

\* CurrentDirection reading the active direction only.
CurrentDirection_IgnoresQueue(prev) == prev.direction

\* The pieces of the updater of moveSnake, named as in the code.
CurrentDirection(prev) == OrElse(prev.nextDirection, prev.direction)

\* NewState with `nextDirection: null` forgotten.
NewState_KeepsQueue(prev) == [prev EXCEPT !.direction = CurrentDirection(prev)]

\* newState: the queued direction applied and the queue emptied.
NewState(prev) ==
    [prev EXCEPT !.direction = CurrentDirection(prev), !.nextDirection = NoDirection]

NewHead(prev) == getNextPosition(prev.snake[1], CurrentDirection(prev))

\* WallCollision with the walls left out.
WallCollision_Never(prev, size) == FALSE

\* WallCollision with > for >= on the far walls.
WallCollision_OffByOne(prev, size) ==
    LET newHead == getNextPosition(prev.snake[1],
                                   OrElse(prev.nextDirection, prev.direction))
    IN  newHead.x < 0 \/ newHead.x > size \/ newHead.y < 0 \/ newHead.y > size

WallCollision(prev, size) ==
    LET newHead == NewHead(prev)
    IN  newHead.x < 0 \/ newHead.x >= size \/ newHead.y < 0 \/ newHead.y >= size

AteFood(prev) ==
    LET newHead == NewHead(prev)
    IN  newHead.x = prev.food.x /\ newHead.y = prev.food.y

\* newScore counting one point for each food.
NewScore_OnePoint(prev) == IF AteFood(prev) THEN prev.score + 1 ELSE prev.score

\* newScore: POINTS_PER_FOOD more when the food was eaten.
NewScore(prev) == IF AteFood(prev) THEN prev.score + POINTS_PER_FOOD ELSE prev.score

\* BodyToCheck with the tail never left out.
BodyToCheck_WholeSnake(prev) == prev.snake

BodyToCheck(prev) ==
    IF AteFood(prev) THEN prev.snake ELSE SubSeq(prev.snake, 1, Len(prev.snake) - 1)

\* SelfCollision with every for some.
SelfCollision_Every(prev) ==
    LET newHead == NewHead(prev)
        bodyToCheck == BodyToCheck(prev)
    IN  \A i \in 1..Len(bodyToCheck) :
            bodyToCheck[i].x = newHead.x /\ bodyToCheck[i].y = newHead.y

SelfCollision(prev) ==
    LET newHead == NewHead(prev)
        bodyToCheck == BodyToCheck(prev)
    IN  \E i \in 1..Len(bodyToCheck) :
            bodyToCheck[i].x = newHead.x /\ bodyToCheck[i].y = newHead.y

\* NewSnake with the tail never removed.
NewSnake_NeverPops(prev) == <<NewHead(prev)>> \o prev.snake

NewSnake(prev) ==
    LET grown == <<NewHead(prev)>> \o prev.snake
    IN  IF AteFood(prev) THEN grown ELSE SubSeq(grown, 1, Len(grown) - 1)

\* ReachedWinningScore with the comparison never true.
ReachedWinningScore_Never(newScore) == FALSE

\* ReachedWinningScore with > for >=.
ReachedWinningScore_Strict(newScore) == newScore > WINNING_SCORE

\* The win condition of moveSnake.
ReachedWinningScore(newScore) == newScore >= WINNING_SCORE

\* NewFood chosen around the snake as it was before the tick.
NewFood_AroundOldSnake(prev, size, randomIndex) ==
    getRandomEmptyPosition(size, prev.snake, randomIndex)

\* newFood: an empty position of the board around the grown snake.
NewFood(prev, size, randomIndex) ==
    getRandomEmptyPosition(size, NewSnake(prev), randomIndex)

\* WonByScore with the snake left out of the returned state.
WonByScore_SnakeForgotten(prev) ==
    [NewState(prev) EXCEPT !.score = NewScore(prev), !.status = "WON"]

\* The state moveSnake returns where the new score reaches WINNING_SCORE.
WonByScore(prev) ==
    [NewState(prev) EXCEPT !.snake = NewSnake(prev),
                           !.score = NewScore(prev),
                           !.status = "WON"]

\* The catch block of moveSnake ending the game as lost.
BoardFullStatus_GameOver == "GAME_OVER"

\* The status the catch block of moveSnake sets when getRandomEmptyPosition
\* has thrown.
BoardFullStatus == "WON"

\* True when moveSnake reaches its call of getRandomEmptyPosition.
SpawnsFood(prev, size) ==
    /\ prev.status = "PLAYING"
    /\ ~WallCollision(prev, size)
    /\ ~SelfCollision(prev)
    /\ AteFood(prev)
    /\ ~ReachedWinningScore(prev.score + POINTS_PER_FOOD)

\* The updater of moveSnake; randomIndex is read only where food is spawned.
moveSnake(prev, size, randomIndex) ==
    IF prev.status # "PLAYING" THEN prev
    ELSE
      LET newState == NewState(prev)
          newSnake == NewSnake(prev)
          newScore == NewScore(prev)
      IN  IF WallCollision(prev, size) THEN [newState EXCEPT !.status = "GAME_OVER"]
          ELSE IF SelfCollision(prev) THEN [newState EXCEPT !.status = "GAME_OVER"]
          ELSE IF AteFood(prev) /\ ReachedWinningScore(newScore)
               THEN WonByScore(prev)
          ELSE IF AteFood(prev) /\ NoEmptyPosition(size, newSnake)
               THEN [newState EXCEPT !.snake = newSnake, !.score = newScore,
                                     !.status = BoardFullStatus]
          ELSE IF AteFood(prev)
               THEN [newState EXCEPT !.snake = newSnake, !.score = newScore,
                        !.food = NewFood(prev, size, randomIndex)]
          ELSE [newState EXCEPT !.snake = newSnake]

\* The random draws a call of moveSnake can make: one per empty cell when it
\* spawns food, none otherwise (a single dummy draw).
MoveDraws(prev, size) ==
    IF SpawnsFood(prev, size) /\ ~NoEmptyPosition(size, NewSnake(prev))
    THEN RandomIndices(size, NewSnake(prev))
    ELSE {0}

\* ------------------------------------------------------------------ actions
\* The hook just mounted: no interval, gameLoopRef null, effect not yet run.
MountedLoop ==
    [mounted |-> TRUE, timers |-> {}, ref |-> {}, deps |-> "none", cleanup |-> FALSE]

\* No call of getRandomEmptyPosition is followed on its own.
NoSelection == [size |-> 0, snake |-> <<>>, status |-> "none", result |-> <<>>]

\* The specifications of the game apply each update as it arrives and do not
\* follow the interval effect: MoveSnake stands for any callback of any
\* interval.
GameOnly ==
    /\ gameLoop = MountedLoop
    /\ pending = <<>>
    /\ serial = gameState
    /\ selection = NoSelection

\* What hist keeps of the state a startGame replaced.
Replaced(state) == [status |-> state.status, nextDirection |-> state.nextDirection]

\* The parameter `boardSize: number = DEFAULT_BOARD_SIZE`, given the list of
\* arguments of the call: empty, or the board size passed.
BoardSizeParameter(args) == IF args = <<>> THEN DEFAULT_BOARD_SIZE ELSE args[1]

\* The first render of the hook when called with `args`.  There is no state
\* when getRandomEmptyPosition throws in the initialiser.
useSnakeGame(args) ==
    /\ boardSize = BoardSizeParameter(args)
    /\ \E randomIndex \in RandomIndices(boardSize, getInitialSnake(boardSize)) :
           gameState = FreshState(boardSize, "NOT_STARTED", randomIndex)
    /\ ticks = 0
    /\ hist = [op |-> "init", arg |-> args, prev |-> NoDirection]
    /\ GameOnly

Init == \E size \in BoardSizes : useSnakeGame(<<size>>)

\* startGame is exported by the hook and may be called in any status.
StartGame ==
    /\ \E randomIndex \in RandomIndices(boardSize, getInitialSnake(boardSize)) :
           gameState' = startGame(boardSize, randomIndex)
    /\ ticks' = 0
    /\ hist' = [op |-> "startGame", arg |-> NoDirection, prev |-> Replaced(gameState)]
    /\ serial' = gameState'
    /\ UNCHANGED <<boardSize, gameLoop, pending, selection>>

\* A key press or a direct call of changeDirection; the keydown listener is
\* registered for the whole life of the hook.
ChangeDirection ==
    /\ \E newDirection \in Directions :
           /\ gameState' = changeDirection(gameState, newDirection)
           /\ hist' = [op |-> "changeDirection", arg |-> newDirection, prev |-> gameState]
    /\ serial' = gameState'
    /\ UNCHANGED <<boardSize, ticks, gameLoop, pending, selection>>

\* One interval callback.  The updater is applied whatever the status (a
\* callback can still fire before the effect that clears the interval has
\* run); its own guard on the status decides what it does.
MoveSnake ==
    /\ ticks < MaxTicks
    /\ \E randomIndex \in MoveDraws(gameState, boardSize) :
           gameState' = moveSnake(gameState, boardSize, randomIndex)
    /\ ticks' = ticks + 1
    /\ hist' = [op |-> "moveSnake", arg |-> NoDirection, prev |-> gameState]
    /\ serial' = gameState'
    /\ UNCHANGED <<boardSize, gameLoop, pending, selection>>

Next == StartGame \/ ChangeDirection \/ MoveSnake

Spec == Init /\ [][Next]_vars

\* The hook before its first startGame, called with and without a board
\* size: key presses and calls of moveSnake reach it, its state stays as
\* constructed.
InitUnstarted == useSnakeGame(<<>>) \/ Init

NextUnstarted == ChangeDirection \/ MoveSnake

SpecUnstarted == InitUnstarted /\ [][NextUnstarted]_vars

\* The hook called with a board too small for the initial snake.  The hook
\* has no check of its argument: what happens is what the initialiser does.
InvalidBoardSizes == 0..(INITIAL_SNAKE_LENGTH - 1)

InitInvalid == \E size \in InvalidBoardSizes : useSnakeGame(<<size>>)

SpecInvalid == InitInvalid /\ [][Next]_vars

\* ---------------------------------------- getRandomEmptyPosition on its own
\* The function called outside any game, on every board size up to
\* MaxSelectorSize and with every list of positions made of cells of the
\* board and of the two positions just off its left and right edges.
SelectorSizes == 0..MaxSelectorSize

SelectorPositions(size) ==
    {[x |-> cx, y |-> cy] : cx \in 0..(size - 1), cy \in 0..(size - 1)}
        \cup {[x |-> -1, y |-> size \div 2], [x |-> size, y |-> size \div 2]}

\* An array holding the positions of a set.
RECURSIVE ArrayOf(_)
ArrayOf(positions) ==
    IF positions = {} THEN <<>>
    ELSE LET p == CHOOSE q \in positions : TRUE
         IN  <<p>> \o ArrayOf(positions \ {p})

\* No hook is mounted.
NoHook == [status |-> "none"]

InitSelector ==
    /\ \E size \in SelectorSizes :
           \E occupied \in SUBSET SelectorPositions(size) :
               /\ boardSize = size
               /\ selection = [size |-> size, snake |-> ArrayOf(occupied),
                               status |-> "called", result |-> <<>>]
    /\ gameState = NoHook
    /\ serial = NoHook
    /\ ticks = 0
    /\ hist = [op |-> "none", arg |-> NoDirection, prev |-> NoDirection]
    /\ gameLoop = [MountedLoop EXCEPT !.mounted = FALSE]
    /\ pending = <<>>

\* The call ends by the throw or by the return of a cell.
GetRandomEmptyPosition ==
    /\ selection.status = "called"
    /\ \/ /\ NoEmptyPosition(selection.size, selection.snake)
          /\ selection' = [selection EXCEPT !.status = "thrown"]
       \/ /\ ~NoEmptyPosition(selection.size, selection.snake)
          /\ \E randomIndex \in RandomIndices(selection.size, selection.snake) :
                 selection' = [selection EXCEPT
                     !.status = "returned",
                     !.result = <<getRandomEmptyPosition(selection.size, selection.snake,
                                                         randomIndex)>>]
    /\ UNCHANGED <<boardSize, gameState, ticks, hist, gameLoop, pending, serial>>

NextSelector == GetRandomEmptyPosition

SpecSelector == InitSelector /\ [][NextSelector]_vars

\* ------------------------------------------------- games already under way
\* A game played move by move: the hook is mounted on a board, started, and
\* driven by the listed key presses and ticks.  `food` is the cell the random
\* draw of that step lands on.  Every state of LateStates is therefore the
\* result of applying the updaters above to the state after construction.
WinningGame ==
    << [op |-> "useSnakeGame",    boardSize |-> 4, food |-> [x |-> 3, y |-> 0]],
       [op |-> "startGame",       food |-> [x |-> 2, y |-> 3]],
       [op |-> "changeDirection", arg |-> "DOWN"],
       [op |-> "moveSnake",       food |-> [x |-> 3, y |-> 3]],
       [op |-> "changeDirection", arg |-> "RIGHT"],
       [op |-> "moveSnake",       food |-> [x |-> 3, y |-> 2]],
       [op |-> "changeDirection", arg |-> "UP"],
       [op |-> "moveSnake",       food |-> [x |-> 3, y |-> 1]],
       [op |-> "moveSnake",       food |-> [x |-> 3, y |-> 0]],
       [op |-> "moveSnake",       food |-> [x |-> 2, y |-> 0]],
       [op |-> "changeDirection", arg |-> "LEFT"],
       [op |-> "moveSnake",       food |-> [x |-> 2, y |-> 1]],
       [op |-> "changeDirection", arg |-> "DOWN"],
       [op |-> "moveSnake",       food |-> [x |-> 1, y |-> 1]],
       [op |-> "changeDirection", arg |-> "LEFT"],
       [op |-> "moveSnake",       food |-> [x |-> 1, y |-> 0]],
       [op |-> "changeDirection", arg |-> "UP"],
       [op |-> "moveSnake",       food |-> [x |-> 0, y |-> 0]] >>

\* A game on the smallest board that leaves a single empty cell, the one the
\* food is on, next to the head.
BoardFillingGame ==
    << [op |-> "useSnakeGame",    boardSize |-> INITIAL_SNAKE_LENGTH,
                                  food |-> [x |-> 0, y |-> 0]],
       [op |-> "startGame",       food |-> [x |-> 1, y |-> 2]],
       [op |-> "moveSnake"],
       [op |-> "changeDirection", arg |-> "DOWN"],
       [op |-> "moveSnake"],
       [op |-> "changeDirection", arg |-> "LEFT"],
       [op |-> "moveSnake",       food |-> [x |-> 0, y |-> 2]],
       [op |-> "moveSnake",       food |-> [x |-> 0, y |-> 1]],
       [op |-> "changeDirection", arg |-> "UP"],
       [op |-> "moveSnake",       food |-> [x |-> 0, y |-> 0]],
       [op |-> "moveSnake",       food |-> [x |-> 1, y |-> 0]],
       [op |-> "changeDirection", arg |-> "RIGHT"],
       [op |-> "moveSnake",       food |-> [x |-> 2, y |-> 0]] >>

LateGames == {WinningGame, BoardFillingGame}

\* The random index that makes getRandomEmptyPosition return `cell`.
IndexOfCell(size, snake, cell) ==
    (CHOOSE i \in 1..Len(AvailablePositions(size, snake)) :
         AvailablePositions(size, snake)[i] = cell) - 1

\* The state after the first n steps of a game.
RECURSIVE Replay(_, _)
Replay(game, n) ==
    LET size == game[1].boardSize
        step == game[n]
    IN  IF n = 1
        THEN FreshState(size, "NOT_STARTED",
                        IndexOfCell(size, getInitialSnake(size), step.food))
        ELSE LET prev == Replay(game, n - 1)
             IN  CASE step.op = "startGame" ->
                        startGame(size, IndexOfCell(size, getInitialSnake(size), step.food))
                   [] step.op = "changeDirection" ->
                        changeDirection(prev, step.arg)
                   [] step.op = "moveSnake" ->
                        moveSnake(prev, size,
                                  IF SpawnsFood(prev, size)
                                  THEN IndexOfCell(size, NewSnake(prev), step.food)
                                  ELSE 0)

\* The points of the game the model takes up play from: after each tick of
\* its second half.
LatePoints(game) ==
    {n \in 2..Len(game) : game[n].op = "moveSnake" /\ 2 * n > Len(game)}

\* The game taken up after its first n steps.
LateState(game, n) ==
    /\ boardSize = game[1].boardSize
    /\ gameState = Replay(game, n)
    /\ ticks = 0
    /\ hist = [op |-> "moveSnake", arg |-> NoDirection, prev |-> Replay(game, n - 1)]

InitLate ==
    \E game \in LateGames :
        \E n \in LatePoints(game) :
            /\ LateState(game, n)
            /\ GameOnly

SpecLate == InitLate /\ [][Next]_vars

\* Play from the construction of the hook and from the games under way.
SpecAll == (Init \/ InitLate) /\ [][Next]_vars

\* ------------------------------------------------------ the interval effect
\* setInterval returns an id no running interval has.
NewIntervalId(timers) ==
    CHOOSE id \in 1..(Cardinality(timers) + 1) :
        id \notin timers /\ \A smaller \in 1..(id - 1) : smaller \in timers

\* The effect returning no cleanup.
RunCleanup_Missing(loop) == [loop EXCEPT !.cleanup = FALSE]

\* The cleanup the effect returned, when it returned one: clearInterval of
\* gameLoopRef.current when it is not null.
RunCleanup(loop) ==
    IF loop.cleanup
    THEN [loop EXCEPT !.timers = @ \ loop.ref, !.cleanup = FALSE]
    ELSE loop

\* The body of the effect, run for a render whose status is `status`.
RunEffect(loop, status) ==
    IF status = "PLAYING"
    THEN LET id == NewIntervalId(loop.timers)
         IN  [loop EXCEPT !.timers = @ \cup {id}, !.ref = {id},
                          !.deps = status, !.cleanup = TRUE]
    ELSE [loop EXCEPT !.deps = status, !.cleanup = FALSE]

\* React runs the effect after the first render and after every render whose
\* gameState.status differs from the one it last ran for (moveSnake, its other
\* dependency, changes only with boardSize); the previous cleanup runs first.
GameLoopEffect ==
    /\ gameLoop.mounted
    /\ gameLoop.deps # gameState.status
    /\ gameLoop' = RunEffect(RunCleanup(gameLoop), gameState.status)
    /\ hist' = [op |-> "effect", arg |-> NoDirection, prev |-> NoDirection]
    /\ UNCHANGED <<boardSize, gameState, ticks, pending, serial, selection>>

\* The component using the hook is unmounted: the pending cleanup runs.
Unmount ==
    /\ gameLoop.mounted
    /\ gameLoop' = [RunCleanup(gameLoop) EXCEPT !.mounted = FALSE]
    /\ hist' = [op |-> "unmount", arg |-> NoDirection, prev |-> NoDirection]
    /\ UNCHANGED <<boardSize, gameState, ticks, pending, serial, selection>>

\* A callback of a running interval.
IntervalCallback ==
    /\ gameLoop.timers # {}
    /\ MoveSnake

\* startGame and key presses reach the hook while it is mounted.
NextLoop ==
    \/ gameLoop.mounted /\ StartGame
    \/ gameLoop.mounted /\ ChangeDirection
    \/ IntervalCallback
    \/ GameLoopEffect
    \/ Unmount

\* The loop of a game under way: the effect has run for NOT_STARTED, then
\* for PLAYING.
PlayingLoop ==
    RunEffect(RunCleanup(RunEffect(RunCleanup(MountedLoop), "NOT_STARTED")), "PLAYING")

\* The hook with its interval effect, on the smallest board: from its
\* construction and from the game about to fill the board.
InitLoop ==
    \/ useSnakeGame(<<INITIAL_SNAKE_LENGTH>>)
    \/ \E n \in LatePoints(BoardFillingGame) :
           /\ LateState(BoardFillingGame, n)
           /\ gameLoop = PlayingLoop
           /\ pending = <<>>
           /\ serial = gameState
           /\ selection = NoSelection

SpecLoop == InitLoop /\ [][NextLoop]_vars

\* ------------------------------------------------- React's queue of updates
\* setGameState does not change the state at once: React queues the update
\* and applies the queue, in the order of the calls, at the next render.
\* startGame queues a value, changeDirection and moveSnake queue an updater,
\* which reads the state left by the update before it.  `random` is the value
\* Math.random() returns when the updater of moveSnake runs.
RandomValues == {[num |-> k, den |-> RandomSteps] : k \in 0..(RandomSteps - 1)}

\* Math.floor(Math.random() * length)
RandomIndex(random, length) == (random.num * length) \div random.den

\* The values Math.random() can return in the updater of moveSnake applied
\* to `prev`: it is called only where food is spawned.
MoveRandoms(prev, size) ==
    IF SpawnsFood(prev, size) THEN RandomValues ELSE {[num |-> 0, den |-> RandomSteps]}

ApplyUpdate(update, prev, size) ==
    CASE update.op = "startGame" -> update.value
      [] update.op = "changeDirection" -> changeDirection(prev, update.arg)
      [] update.op = "moveSnake" ->
            moveSnake(prev, size,
                      IF SpawnsFood(prev, size)
                      THEN RandomIndex(update.random,
                                       Len(AvailablePositions(size, NewSnake(prev))))
                      ELSE 0)

\* A render that applies the last queued update only.
ProcessQueue_LastOnly(state, queue, size) ==
    IF queue = <<>> THEN state
    ELSE ApplyUpdate(queue[Len(queue)], state, size)

\* The state a render computes from the committed state and the queue.
RECURSIVE ProcessQueue(_, _, _)
ProcessQueue(state, queue, size) ==
    IF queue = <<>> THEN state
    ELSE ProcessQueue(ApplyUpdate(Head(queue), state, size), Tail(queue), size)

\* The hook's three entry points, each queuing its update; `serial` applies
\* the same operation, with the same random value, to the state as it
\* arrives.
CallStartGame ==
    /\ Len(pending) < MaxPending
    /\ \E random \in RandomValues :
           LET available == AvailablePositions(boardSize, getInitialSnake(boardSize))
               value == startGame(boardSize, RandomIndex(random, Len(available)))
           IN  /\ pending' = Append(pending, [op |-> "startGame", value |-> value])
               /\ serial' = value
    /\ ticks' = 0
    /\ hist' = [op |-> "call", arg |-> NoDirection, prev |-> NoDirection]
    /\ UNCHANGED <<boardSize, gameState, gameLoop, selection>>

KeyDown ==
    /\ Len(pending) < MaxPending
    /\ \E newDirection \in Directions :
           /\ pending' = Append(pending, [op |-> "changeDirection", arg |-> newDirection])
           /\ serial' = changeDirection(serial, newDirection)
    /\ hist' = [op |-> "call", arg |-> NoDirection, prev |-> NoDirection]
    /\ UNCHANGED <<boardSize, gameState, ticks, gameLoop, selection>>

IntervalFires ==
    /\ Len(pending) < MaxPending
    /\ ticks < MaxTicks
    /\ \E random \in MoveRandoms(serial, boardSize) :
           LET update == [op |-> "moveSnake", random |-> random]
           IN  /\ pending' = Append(pending, update)
               /\ serial' = ApplyUpdate(update, serial, boardSize)
    /\ ticks' = ticks + 1
    /\ hist' = [op |-> "call", arg |-> NoDirection, prev |-> NoDirection]
    /\ UNCHANGED <<boardSize, gameState, gameLoop, selection>>

\* hist keeps the names of the updates the render applied.
Render ==
    /\ pending # <<>>
    /\ gameState' = ProcessQueue(gameState, pending, boardSize)
    /\ pending' = <<>>
    /\ hist' = [op |-> "render", arg |-> NoDirection,
                prev |-> [i \in 1..Len(pending) |-> pending[i].op]]
    /\ UNCHANGED <<boardSize, ticks, gameLoop, serial, selection>>

NextQueue == CallStartGame \/ KeyDown \/ IntervalFires \/ Render

\* The hook on the smallest board, its updates going through the queue.
InitQueue == useSnakeGame(<<INITIAL_SNAKE_LENGTH>>)

SpecQueue == InitQueue /\ [][NextQueue]_vars

\* ------------------------------------------------------ the keydown listener
\* The keys the model presses: the four arrows and two keys the listener has
\* no case for.
ArrowKeys == {"ArrowUp", "ArrowDown", "ArrowLeft", "ArrowRight"}

OtherKeys == {"Enter", "w"}

\* handleKeyPress with the cases of ArrowLeft and ArrowRight exchanged.
handleKeyPress_LeftRightSwapped(prev, key) ==
    CASE key = "ArrowUp"    -> changeDirection(prev, "UP")
      [] key = "ArrowDown"  -> changeDirection(prev, "DOWN")
      [] key = "ArrowLeft"  -> changeDirection(prev, "RIGHT")
      [] key = "ArrowRight" -> changeDirection(prev, "LEFT")
      [] OTHER              -> prev

\* handleKeyPress: each arrow calls changeDirection once; for every other key
\* the switch has no case and setGameState is not called.
handleKeyPress(prev, key) ==
    CASE key = "ArrowUp"    -> changeDirection(prev, "UP")
      [] key = "ArrowDown"  -> changeDirection(prev, "DOWN")
      [] key = "ArrowLeft"  -> changeDirection(prev, "LEFT")
      [] key = "ArrowRight" -> changeDirection(prev, "RIGHT")
      [] OTHER              -> prev

DirectionOfKey(key) ==
    CASE key = "ArrowUp" -> "UP" [] key = "ArrowDown" -> "DOWN"
      [] key = "ArrowLeft" -> "LEFT" [] key = "ArrowRight" -> "RIGHT"

\* The directions accepted by changeDirection since the last interval
\* callback, oldest first; only the last two are kept.
AcceptedSoFar == IF hist.op = "keydown" THEN hist.accepted ELSE <<>>

LastTwo(s) == IF Len(s) > 2 THEN SubSeq(s, Len(s) - 1, Len(s)) ELSE s

AcceptsKey(prev, key) ==
    /\ key \in ArrowKeys
    /\ prev.status = "PLAYING"
    /\ ~isOppositeDirection(OrElse(prev.nextDirection, prev.direction), DirectionOfKey(key))

HandleKeyPress ==
    /\ \E key \in ArrowKeys \cup OtherKeys :
           /\ gameState' = handleKeyPress(gameState, key)
           /\ hist' = [op |-> "keydown", arg |-> key, prev |-> gameState,
                       accepted |-> IF AcceptsKey(gameState, key)
                                    THEN LastTwo(Append(AcceptedSoFar, DirectionOfKey(key)))
                                    ELSE AcceptedSoFar]
    /\ serial' = gameState'
    /\ UNCHANGED <<boardSize, ticks, gameLoop, pending, selection>>

\* One interval callback, as MoveSnake; hist also keeps the last two
\* directions accepted since the callback before it.
MoveSnakeAfterKeys ==
    /\ ticks < MaxTicks
    /\ \E randomIndex \in MoveDraws(gameState, boardSize) :
           gameState' = moveSnake(gameState, boardSize, randomIndex)
    /\ ticks' = ticks + 1
    /\ hist' = [op |-> "moveSnake",
                arg |-> AcceptedSoFar,
                prev |-> gameState]
    /\ serial' = gameState'
    /\ UNCHANGED <<boardSize, gameLoop, pending, selection>>

NextKeys == StartGame \/ HandleKeyPress \/ MoveSnakeAfterKeys

\* The hook driven through its keydown listener, on the smallest board that
\* holds the initial snake.
InitKeys == useSnakeGame(<<INITIAL_SNAKE_LENGTH + 1>>)

SpecKeys == InitKeys /\ [][NextKeys]_vars

\* The component renders again and calls the hook with another boardSize.
\* useState ignores its initialiser after the first render, so gameState is
\* kept; startGame and moveSnake are made again by useCallback([boardSize])
\* and close over the new argument.
Rerender ==
    /\ \E size \in BoardSizes \ {boardSize} :
           /\ boardSize' = size
           /\ hist' = [op |-> "rerender", arg |-> size, prev |-> boardSize]
    /\ UNCHANGED <<gameState, ticks, gameLoop, pending, serial, selection>>

NextRerender == StartGame \/ ChangeDirection \/ MoveSnake \/ Rerender

SpecRerender == Init /\ [][NextRerender]_vars

\* A direction request that changeDirection does not accept: it returns the
\* state it was given.
RejectedRequest ==
    /\ \E newDirection \in Directions :
           /\ changeDirection(gameState, newDirection) = gameState
           /\ gameState' = changeDirection(gameState, newDirection)
           /\ hist' = [op |-> "changeDirection", arg |-> newDirection, prev |-> gameState]
    /\ serial' = gameState'
    /\ UNCHANGED <<boardSize, ticks, gameLoop, pending, selection>>

\* One interval callback of a run in which the callbacks keep coming; ticks
\* counts them since startGame (or since the game was taken up) and is
\* followed one callback beyond the size of the board.
StraightTick ==
    /\ ticks <= boardSize
    /\ \E randomIndex \in MoveDraws(gameState, boardSize) :
           gameState' = moveSnake(gameState, boardSize, randomIndex)
    /\ ticks' = ticks + 1
    /\ hist' = [op |-> "moveSnake", arg |-> NoDirection, prev |-> gameState]
    /\ serial' = gameState'
    /\ UNCHANGED <<boardSize, gameLoop, pending, selection>>

NextStraight == StartGame \/ RejectedRequest \/ StraightTick

\* Games in which no direction request is accepted, from the construction of
\* the hook and from the games under way.
SpecStraight == (Init \/ InitLate) /\ [][NextStraight]_vars

\* =================================================================== claims
\* Vocabulary of the claims, stated on positions and directions themselves
\* rather than through the operators of the updaters.
Ticked == hist.op = "moveSnake"

Requested == hist.op = "changeDirection"

\* The last operation was a tick applied to a PLAYING state.
TickedWhilePlaying == Ticked /\ hist.prev.status = "PLAYING"

\* The last operation was a direction request made to a PLAYING state.
RequestedWhilePlaying == Requested /\ hist.prev.status = "PLAYING"

OppositeOf(d) ==
    CASE d = "UP" -> "DOWN" [] d = "DOWN" -> "UP" [] d = "LEFT" -> "RIGHT" [] d = "RIGHT" -> "LEFT"

Delta(d) ==
    CASE d = "UP" -> <<0, -1>> [] d = "DOWN" -> <<0, 1>> [] d = "LEFT" -> <<-1, 0>> [] d = "RIGHT" -> <<1, 0>>

\* The direction a tick applies to `state`, and the cell its head moves to.
EffectiveDirection(state) ==
    IF state.nextDirection \in Directions THEN state.nextDirection ELSE state.direction

HeadTarget(state) ==
    [x |-> state.snake[1].x + Delta(EffectiveDirection(state))[1],
     y |-> state.snake[1].y + Delta(EffectiveDirection(state))[2]]

OnBoard(p, size) == p.x \in 0..(size - 1) /\ p.y \in 0..(size - 1)

CellsOf(snake) == {snake[i] : i \in 1..Len(snake)}

\* The body a tick tests the new head against.
ApplicableBody(state) ==
    IF HeadTarget(state) = state.food
    THEN CellsOf(state.snake)
    ELSE {state.snake[i] : i \in 1..(Len(state.snake) - 1)}

HitsWall(state) == ~OnBoard(HeadTarget(state), boardSize)

HitsSelf(state) == ~HitsWall(state) /\ HeadTarget(state) \in ApplicableBody(state)

Eats(state) == ~HitsWall(state) /\ ~HitsSelf(state) /\ HeadTarget(state) = state.food

Manhattan(p, q) ==
    (IF p.x >= q.x THEN p.x - q.x ELSE q.x - p.x) + (IF p.y >= q.y THEN p.y - q.y ELSE q.y - p.y)

\* C1: the snake never reverses 180 degrees: the direction a tick of a PLAYING
\* game applies is never the opposite of the direction active before the tick,
\* whatever requests were made since the previous tick.
C1_NeverReverses ==
    TickedWhilePlaying => gameState.direction # OppositeOf(hist.prev.direction)

\* C2: a tick of a PLAYING state whose new head is off the board yields
\* GAME_OVER and leaves snake, score and food as they were.
C2_WallCollision ==
    (TickedWhilePlaying /\ HitsWall(hist.prev)) =>
        /\ gameState.status = "GAME_OVER"
        /\ gameState.snake = hist.prev.snake
        /\ gameState.score = hist.prev.score
        /\ gameState.food = hist.prev.food

C2_Witness ==
    /\ TickedWhilePlaying
    /\ HitsWall(hist.prev)
    /\ OnBoard(hist.prev.snake[1], boardSize)
    /\ gameState.status = "GAME_OVER"

\* C3: a tick of a PLAYING state whose new head is on the board and on a
\* segment of the applicable body (the whole snake when the new head is the
\* food, the snake without its last segment otherwise) yields GAME_OVER and
\* leaves snake, score and food as they were.
C3_SelfCollision ==
    (TickedWhilePlaying /\ HitsSelf(hist.prev)) =>
        /\ gameState.status = "GAME_OVER"
        /\ gameState.snake = hist.prev.snake
        /\ gameState.score = hist.prev.score
        /\ gameState.food = hist.prev.food

\* A collision with a segment beyond the neck: the snake ran into its own coil.
C3_Witness ==
    /\ TickedWhilePlaying
    /\ HitsSelf(hist.prev)
    /\ HeadTarget(hist.prev) # hist.prev.snake[2]
    /\ gameState.status = "GAME_OVER"

\* C4: growth law: on a tick of a PLAYING state without collision, if the new
\* head is the food the snake grows by exactly 1 and the score by exactly
\* POINTS_PER_FOOD; otherwise length, score and food are unchanged.
C4_GrowthLaw ==
    (TickedWhilePlaying /\ ~HitsWall(hist.prev) /\ ~HitsSelf(hist.prev)) =>
        IF HeadTarget(hist.prev) = hist.prev.food
        THEN /\ Len(gameState.snake) = Len(hist.prev.snake) + 1
             /\ gameState.score = hist.prev.score + POINTS_PER_FOOD
        ELSE /\ Len(gameState.snake) = Len(hist.prev.snake)
             /\ gameState.score = hist.prev.score
             /\ gameState.food = hist.prev.food

C4_Witness ==
    /\ TickedWhilePlaying
    /\ Eats(hist.prev)
    /\ Len(gameState.snake) = Len(hist.prev.snake) + 1
    /\ gameState.score = hist.prev.score + POINTS_PER_FOOD

\* C5: win law: a tick of a PLAYING state that eats food with
\* score + POINTS_PER_FOOD >= WINNING_SCORE yields WON with score exactly the
\* previous score + POINTS_PER_FOOD; one that eats food with
\* score + POINTS_PER_FOOD < WINNING_SCORE while an empty cell remains leaves
\* the status PLAYING.
C5_WinLaw ==
    (TickedWhilePlaying /\ Eats(hist.prev)) =>
        /\ hist.prev.score + POINTS_PER_FOOD >= WINNING_SCORE =>
               /\ gameState.status = "WON"
               /\ gameState.score = hist.prev.score + POINTS_PER_FOOD
        /\ ( /\ hist.prev.score + POINTS_PER_FOOD < WINNING_SCORE
             /\ \E x, y \in 0..(boardSize - 1) :
                    [x |-> x, y |-> y] \notin (CellsOf(hist.prev.snake) \cup {hist.prev.food}) )
           => gameState.status = "PLAYING"

C5_Witness ==
    /\ TickedWhilePlaying
    /\ Eats(hist.prev)
    /\ hist.prev.score + POINTS_PER_FOOD >= WINNING_SCORE
    /\ gameState.status = "WON"
    /\ gameState.score = WINNING_SCORE

\* C6: in a state whose status is not PLAYING, a tick and a direction request
\* (whatever the direction) return the state with every field unchanged; only
\* startGame leaves such a state.
C6_InactiveIsFrozen ==
    ((Ticked \/ Requested) /\ hist.prev.status # "PLAYING") => gameState = hist.prev

C6_Witness ==
    /\ Ticked
    /\ hist.prev.status = "GAME_OVER"
    /\ gameState = hist.prev

\* C7: direction-reversal law: in a PLAYING state a request for the direction
\* opposite to the reference (the queued direction if there is one, the
\* active direction otherwise) leaves the whole state unchanged.
C7_ReversalRejected ==
    (RequestedWhilePlaying /\ hist.arg = OppositeOf(EffectiveDirection(hist.prev))) =>
        gameState = hist.prev

\* The reference is a queued direction that differs from the active one.
C7_Witness ==
    /\ RequestedWhilePlaying
    /\ hist.prev.nextDirection \in Directions \ {hist.prev.direction}
    /\ hist.arg = OppositeOf(hist.prev.nextDirection)
    /\ gameState = hist.prev

\* C8: queuing law: in a PLAYING state an accepted request for d sets
\* nextDirection to d and leaves direction as it was; the next tick makes
\* direction the queued value and clears nextDirection.
C8_QueuingLaw ==
    /\ (RequestedWhilePlaying /\ hist.arg # OppositeOf(EffectiveDirection(hist.prev))) =>
           /\ gameState.nextDirection = hist.arg
           /\ gameState.direction = hist.prev.direction
    /\ (TickedWhilePlaying /\ hist.prev.nextDirection \in Directions) =>
           /\ gameState.direction = hist.prev.nextDirection
           /\ gameState.nextDirection = NoDirection

C8_Witness ==
    /\ TickedWhilePlaying
    /\ hist.prev.nextDirection \in Directions \ {hist.prev.direction}
    /\ gameState.direction = hist.prev.nextDirection
    /\ gameState.nextDirection = NoDirection

\* C9: in every reachable PLAYING state, and in the state right after
\* construction or startGame, the food is on the board and on no segment of
\* the snake.
C9_FoodOffSnake ==
    (gameState.status = "PLAYING" \/ hist.op \in {"init", "startGame"}) =>
        /\ OnBoard(gameState.food, boardSize)
        /\ gameState.food \notin CellsOf(gameState.snake)

\* A PLAYING state whose food was placed by the tick that ate the previous one.
C9_Witness ==
    /\ TickedWhilePlaying
    /\ Eats(hist.prev)
    /\ gameState.status = "PLAYING"
    /\ gameState.food # hist.prev.food
    /\ gameState.food \notin CellsOf(gameState.snake)

\* C10: in every reachable state the snake has at least one segment, and in
\* every reachable PLAYING state its segments are pairwise distinct and each
\* is at Manhattan distance exactly 1 from its predecessor.
C10_SnakeShape ==
    /\ Len(gameState.snake) >= 1
    /\ gameState.status = "PLAYING" =>
           /\ \A i, j \in 1..Len(gameState.snake) :
                  i # j => gameState.snake[i] # gameState.snake[j]
           /\ \A i \in 2..Len(gameState.snake) :
                  Manhattan(gameState.snake[i], gameState.snake[i - 1]) = 1

\* A PLAYING snake that has grown and turned.
C10_Witness ==
    /\ TickedWhilePlaying
    /\ gameState.status = "PLAYING"
    /\ Len(gameState.snake) > INITIAL_SNAKE_LENGTH
    /\ gameState.snake[1].y # gameState.snake[Len(gameState.snake)].y

\* -------------------------------------------------------------- C11 .. C20
Constructed == hist.op = "init"

Started == hist.op = "startGame"

AllCells(size) == {[x |-> cx, y |-> cy] : cx \in 0..(size - 1), cy \in 0..(size - 1)}

\* The snake of `state`, grown onto the cell its head moves to, covers the board.
FillsBoard(state) ==
    AllCells(boardSize) \subseteq (CellsOf(state.snake) \cup {HeadTarget(state)})

\* C11: the status changes only along the edges of the state machine.
\* Construction gives NOT_STARTED; startGame gives PLAYING from every status;
\* a direction request never changes the status; a tick changes nothing
\* unless the status is PLAYING, and then gives GAME_OVER exactly on a wall or
\* self collision, WON exactly when it eats and either reaches WINNING_SCORE
\* or fills the board, and PLAYING otherwise.  Hence no operation produces
\* NOT_STARTED, and GAME_OVER and WON are left only through startGame.
C11_StatusTransitions ==
    /\ Constructed => gameState.status = "NOT_STARTED"
    /\ Started => gameState.status = "PLAYING"
    /\ Requested => gameState.status = hist.prev.status
    /\ (Ticked /\ hist.prev.status # "PLAYING") => gameState.status = hist.prev.status
    /\ TickedWhilePlaying =>
          /\ gameState.status \in {"PLAYING", "GAME_OVER", "WON"}
          /\ gameState.status = "GAME_OVER" <=> (HitsWall(hist.prev) \/ HitsSelf(hist.prev))
          /\ gameState.status = "WON" <=>
                 /\ Eats(hist.prev)
                 /\ \/ hist.prev.score + POINTS_PER_FOOD >= WINNING_SCORE
                    \/ FillsBoard(hist.prev)

\* A tick has just won the game by filling the board.
C11_Witness ==
    /\ TickedWhilePlaying
    /\ gameState.status = "WON"
    /\ gameState.score < WINNING_SCORE
    /\ FillsBoard(hist.prev)

\* Further edges of the state machine, each taken in some reachable state.
C11_RestartAfterWin == Started /\ hist.prev.status = "WON"

C11_RestartAfterLoss == Started /\ hist.prev.status = "GAME_OVER"

C11_FirstStart == Started /\ hist.prev.status = "NOT_STARTED"

C11_WinByScore == TickedWhilePlaying /\ gameState.status = "WON" /\ gameState.score >= WINNING_SCORE

C11_Loss == TickedWhilePlaying /\ gameState.status = "GAME_OVER"

\* The snake the hook is specified to begin with on a board of side `size`:
\* INITIAL_SNAKE_LENGTH segments, the head on the centre cell, segment i
\* (counted from 0) i cells to its left.
CenteredSnake(size) ==
    [i \in 1..INITIAL_SNAKE_LENGTH |-> [x |-> (size \div 2) - (i - 1), y |-> size \div 2]]

\* C12: startGame, from every status, yields status PLAYING, score 0,
\* direction RIGHT, no queued direction, the centered initial snake and a food
\* on a cell of the board the snake is not on.  Every field but the food is
\* thus fixed by boardSize alone: nothing of the replaced state, a queued
\* direction included, is carried over.
C12_StartResets ==
    Started =>
        /\ gameState.status = "PLAYING"
        /\ gameState.score = 0
        /\ gameState.direction = "RIGHT"
        /\ gameState.nextDirection = NoDirection
        /\ gameState.snake = CenteredSnake(boardSize)
        /\ gameState.boardSize = boardSize
        /\ gameState.food \in AllCells(boardSize) \ CellsOf(gameState.snake)

\* startGame has just replaced a PLAYING state that had a direction queued.
C12_Witness ==
    /\ Started
    /\ hist.prev.status = "PLAYING"
    /\ hist.prev.nextDirection \in Directions
    /\ gameState.nextDirection = NoDirection

\* C13: the state the hook is constructed with has status NOT_STARTED,
\* score 0, direction RIGHT, no queued direction, the board size passed to
\* the hook (DEFAULT_BOARD_SIZE when none is passed), the snake of
\* INITIAL_SNAKE_LENGTH segments with its head at (floor(boardSize/2),
\* floor(boardSize/2)) and segment i at (floor(boardSize/2) - i,
\* floor(boardSize/2)), and a food that is on no segment of the snake.
C13_ConstructionState ==
    Constructed =>
        LET size == IF hist.arg = <<>> THEN DEFAULT_BOARD_SIZE ELSE hist.arg[1]
            half == size \div 2
        IN  /\ gameState.status = "NOT_STARTED"
            /\ gameState.score = 0
            /\ gameState.direction = "RIGHT"
            /\ gameState.nextDirection = NoDirection
            /\ gameState.boardSize = size
            /\ Len(gameState.snake) = INITIAL_SNAKE_LENGTH
            /\ gameState.snake[1] = [x |-> half, y |-> half]
            /\ \A i \in 0..(INITIAL_SNAKE_LENGTH - 1) :
                   gameState.snake[i + 1] = [x |-> half - i, y |-> half]
            /\ gameState.food \notin CellsOf(gameState.snake)

\* The hook has just been constructed without a board size.
C13_Witness ==
    /\ Constructed
    /\ hist.arg = <<>>
    /\ gameState.boardSize = DEFAULT_BOARD_SIZE
    /\ gameState.snake[INITIAL_SNAKE_LENGTH].x = (DEFAULT_BOARD_SIZE \div 2) - (INITIAL_SNAKE_LENGTH - 1)

\* C14: when a tick of a PLAYING state eats, the new score is below
\* WINNING_SCORE and the grown snake covers every cell of the board, the
\* failure of getRandomEmptyPosition does not escape: the result has status
\* WON, the grown snake and the incremented score.
C14_BoardFullWins ==
    (/\ TickedWhilePlaying
     /\ Eats(hist.prev)
     /\ hist.prev.score + POINTS_PER_FOOD < WINNING_SCORE
     /\ FillsBoard(hist.prev)) =>
        /\ gameState.status = "WON"
        /\ gameState.snake = <<HeadTarget(hist.prev)>> \o hist.prev.snake
        /\ gameState.score = hist.prev.score + POINTS_PER_FOOD

\* A tick has just eaten the food on the last empty cell of the board.
C14_Witness ==
    /\ TickedWhilePlaying
    /\ Eats(hist.prev)
    /\ hist.prev.score + POINTS_PER_FOOD < WINNING_SCORE
    /\ Len(gameState.snake) = boardSize * boardSize
    /\ CellsOf(gameState.snake) = AllCells(boardSize)

\* C15: for every boardSize >= INITIAL_SNAKE_LENGTH, the snake the hook is
\* constructed with and the snake startGame produces have every segment on
\* the board.
C15_InitialSnakeOnBoard ==
    (boardSize >= INITIAL_SNAKE_LENGTH /\ (Constructed \/ Started)) =>
        \A i \in 1..Len(gameState.snake) : OnBoard(gameState.snake[i], boardSize)

\* C16: a boardSize below INITIAL_SNAKE_LENGTH is rejected at construction
\* and at startGame: no state is ever produced whose initial snake has two
\* segments on one cell or a segment off the board.
C16_InvalidBoardRejected ==
    (boardSize < INITIAL_SNAKE_LENGTH /\ (Constructed \/ Started)) =>
        /\ \A i, j \in 1..Len(gameState.snake) :
               i # j => gameState.snake[i] # gameState.snake[j]
        /\ \A i \in 1..Len(gameState.snake) : OnBoard(gameState.snake[i], boardSize)

\* C19: every GAME_OVER state is the result of a tick of a PLAYING state
\* whose new head was off the board or on the applicable body (and is kept
\* as it is by later ticks and requests); and on a board of side 4 or more
\* every WON state has score exactly WINNING_SCORE with the board not full:
\* the board-full branch is never the one taken.
C19_TerminalStates ==
    /\ gameState.status = "GAME_OVER" =>
          \/ TickedWhilePlaying /\ (HitsWall(hist.prev) \/ HitsSelf(hist.prev))
          \/ (Ticked \/ Requested) /\ hist.prev = gameState
    /\ (gameState.status = "WON" /\ boardSize >= 4) =>
          /\ gameState.score = WINNING_SCORE
          /\ CellsOf(gameState.snake) # AllCells(boardSize)

\* The game on the 4x4 board has been won and a later tick has left it so.
C19_Witness ==
    /\ boardSize >= 4
    /\ gameState.status = "WON"
    /\ Ticked
    /\ hist.prev = gameState
    /\ gameState.score = WINNING_SCORE

\* A lost game a later key press has left as it is.
C19_LossKept == gameState.status = "GAME_OVER" /\ Requested /\ hist.prev = gameState

\* The cells of the board of the call that its argument does not occupy.
FreeCells == AllCells(selection.size) \ CellsOf(selection.snake)

\* C20: for every board size and every list of occupied positions,
\* getRandomEmptyPosition returns a cell with 0 <= x, y < boardSize that is
\* not occupied whenever there is one, every such cell is a possible result,
\* and it throws exactly when every cell of the grid is occupied.
C20_Selector ==
    /\ selection.status = "returned" =>
          /\ OnBoard(selection.result[1], selection.size)
          /\ selection.result[1] \notin CellsOf(selection.snake)
    /\ selection.status = "thrown" => FreeCells = {}
    /\ selection.status = "called" =>
          /\ NoEmptyPosition(selection.size, selection.snake) <=> FreeCells = {}
          /\ FreeCells # {} =>
                 {getRandomEmptyPosition(selection.size, selection.snake, randomIndex) :
                      randomIndex \in RandomIndices(selection.size, selection.snake)}
                     = FreeCells

\* The call has returned the cell of the last column, with positions off the
\* board among the occupied ones.
C20_Witness ==
    /\ selection.status = "returned"
    /\ selection.result[1].x = selection.size - 1
    /\ \E p \in CellsOf(selection.snake) : ~OnBoard(p, selection.size)
    /\ \E p \in CellsOf(selection.snake) : OnBoard(p, selection.size)

\* The call has thrown on a board that has cells.
C20_Thrown == selection.status = "thrown" /\ selection.size > 0

\* The effect has run for the status the hook is now in.
EffectSettled == gameLoop.mounted /\ gameLoop.deps = gameState.status

C17_RestartWhilePlaying ==
    /\ Started
    /\ hist.prev.status = "PLAYING"
    /\ EffectSettled
    /\ Cardinality(gameLoop.timers) = 1

\* A callback has found the game over before the effect cleared the interval.
C17_LateCallback == Ticked /\ hist.prev.status = "GAME_OVER" /\ gameLoop.timers # {}

\* The hook was unmounted while its interval was running.
C17_Unmounted == ~gameLoop.mounted /\ gameLoop.ref # {} /\ gameState.status = "PLAYING"

C18_AteInBatch ==
    /\ hist.op = "render"
    /\ Len(hist.prev) >= 2
    /\ hist.prev[Len(hist.prev)] = "moveSnake"
    /\ gameState.score > 0

\* -------------------------------------------------------------- C21 .. C30
KeyPressed == hist.op = "keydown"

\* The direction each arrow key stands for.
\* What one direction request does to `state`: nothing outside PLAYING or
\* when the direction is the opposite of the queued (else the active)
\* direction; otherwise it queues the direction.
AfterRequest(state, d) ==
    IF state.status # "PLAYING" \/ d = OppositeOf(EffectiveDirection(state))
    THEN state
    ELSE [state EXCEPT !.nextDirection = d]

\* C21: a key event with key ArrowUp, ArrowDown, ArrowLeft or ArrowRight has
\* the effect of exactly one direction request, with UP, DOWN, LEFT or RIGHT
\* respectively; a key event with any other key leaves the game state
\* unchanged.
C21_KeyMapping ==
    KeyPressed =>
        IF hist.arg \in {"ArrowUp", "ArrowDown", "ArrowLeft", "ArrowRight"}
        THEN gameState = AfterRequest(hist.prev, DirectionOfKey(hist.arg))
        ELSE gameState = hist.prev

\* ArrowLeft has just queued LEFT in a game that was heading elsewhere.
C21_Witness ==
    /\ KeyPressed
    /\ hist.arg = "ArrowLeft"
    /\ hist.prev.status = "PLAYING"
    /\ hist.prev.nextDirection # "LEFT"
    /\ gameState.nextDirection = "LEFT"

\* A key that is no arrow has been pressed during play.
C21_OtherKey ==
    /\ KeyPressed
    /\ hist.arg \notin {"ArrowUp", "ArrowDown", "ArrowLeft", "ArrowRight"}
    /\ hist.prev.status = "PLAYING"

Distinct(snake) == \A i, j \in 1..Len(snake) : i # j => snake[i] # snake[j]

\* C22: in a PLAYING state whose snake has two segments or more, a tick
\* whose new head is the cell of the last segment and is not the food is no
\* collision: the status stays PLAYING, the new head is prepended and the old
\* tail dropped, and the segments of the result are all distinct.
C22_TailCellIsFree ==
    (/\ TickedWhilePlaying
     /\ Len(hist.prev.snake) >= 2
     /\ HeadTarget(hist.prev) = hist.prev.snake[Len(hist.prev.snake)]
     /\ HeadTarget(hist.prev) # hist.prev.food) =>
        /\ gameState.status = "PLAYING"
        /\ gameState.snake =
               <<HeadTarget(hist.prev)>> \o SubSeq(hist.prev.snake, 1, Len(hist.prev.snake) - 1)
        /\ Distinct(gameState.snake)

\* The head has just moved onto the cell its tail left in the same tick.
C22_Witness ==
    /\ TickedWhilePlaying
    /\ gameState.snake[1] = hist.prev.snake[Len(hist.prev.snake)]
    /\ gameState.snake[1] # hist.prev.food
    /\ gameState.status = "PLAYING"
    /\ Len(gameState.snake) = Len(hist.prev.snake)

\* C23: every tick applied to a PLAYING state, whether it ends PLAYING,
\* GAME_OVER by the wall, GAME_OVER by self collision or WON, returns a state
\* with no queued direction and with direction equal to the effective
\* direction: the direction queued before the tick if there was one, the
\* direction active before the tick otherwise.
C23_TickClearsQueue ==
    TickedWhilePlaying =>
        /\ gameState.nextDirection = NoDirection
        /\ gameState.direction =
               (IF hist.prev.nextDirection \in Directions
                THEN hist.prev.nextDirection
                ELSE hist.prev.direction)

\* A tick with a direction queued has ended the game at the wall.
C23_Witness ==
    /\ TickedWhilePlaying
    /\ hist.prev.nextDirection \in Directions
    /\ hist.prev.nextDirection # hist.prev.direction
    /\ HitsWall(hist.prev)
    /\ gameState.status = "GAME_OVER"
    /\ gameState.direction = hist.prev.nextDirection

\* The same with the game won, and with the game lost on the snake itself.
C23_OnWin ==
    TickedWhilePlaying /\ hist.prev.nextDirection \in Directions /\ gameState.status = "WON"

C23_OnSelfCollision ==
    TickedWhilePlaying /\ hist.prev.nextDirection \in Directions /\ HitsSelf(hist.prev)

\* C24: a direction request accepted in a PLAYING state changes nothing but
\* the queued direction: snake, direction, food, score, status and boardSize
\* are those of the state before the request, and the queued direction is the
\* requested one.
C24_RequestOnlyQueues ==
    (RequestedWhilePlaying /\ hist.arg # OppositeOf(EffectiveDirection(hist.prev))) =>
        /\ gameState.nextDirection = hist.arg
        /\ gameState.snake = hist.prev.snake
        /\ gameState.direction = hist.prev.direction
        /\ gameState.food = hist.prev.food
        /\ gameState.score = hist.prev.score
        /\ gameState.status = hist.prev.status
        /\ gameState.boardSize = hist.prev.boardSize

\* A turn has been accepted in a game that has already scored: the queue
\* holds it and the active direction is still the old one.
C24_Witness ==
    /\ RequestedWhilePlaying
    /\ hist.prev.score > 0
    /\ hist.arg # hist.prev.direction
    /\ gameState.nextDirection = hist.arg
    /\ gameState.direction = hist.prev.direction

C26_MovementLaw ==
    (TickedWhilePlaying /\ ~HitsWall(hist.prev) /\ ~HitsSelf(hist.prev)) =>
        LET old  == hist.prev.snake
            d    == EffectiveDirection(hist.prev)
            step == CASE d = "UP" -> <<0, -1>> [] d = "DOWN" -> <<0, 1>>
                      [] d = "LEFT" -> <<-1, 0>> [] d = "RIGHT" -> <<1, 0>>
            kept == IF HeadTarget(hist.prev) = hist.prev.food
                    THEN Len(old) ELSE Len(old) - 1
        IN  /\ gameState.snake[1] = [x |-> old[1].x + step[1], y |-> old[1].y + step[2]]
            /\ Len(gameState.snake) = kept + 1
            /\ \A i \in 1..kept : gameState.snake[i + 1] = old[i]
            /\ OnBoard(gameState.snake[1], boardSize)

\* A tick has turned the snake upwards without eating: the head is one cell
\* higher and the tail cell was given up.
C26_Witness ==
    /\ TickedWhilePlaying
    /\ EffectiveDirection(hist.prev) = "UP"
    /\ ~Eats(hist.prev)
    /\ gameState.status = "PLAYING"
    /\ gameState.snake[1].y = hist.prev.snake[1].y - 1
    /\ Len(gameState.snake) = Len(hist.prev.snake)

\* A tick has moved the snake downwards onto the food: nothing was dropped.
C26_Eating ==
    /\ TickedWhilePlaying
    /\ EffectiveDirection(hist.prev) = "DOWN"
    /\ Eats(hist.prev)
    /\ gameState.snake[1].y = hist.prev.snake[1].y + 1
    /\ Len(gameState.snake) = Len(hist.prev.snake) + 1

\* C27: on the tick that eats food and brings the score to WINNING_SCORE or
\* more, no new food is placed: the food keeps the value it had before the
\* tick, which is the cell of the new head, and the snake of the WON state is
\* the grown snake, the new head followed by the whole old snake.
C27_NoFoodOnWin ==
    (/\ TickedWhilePlaying
     /\ Eats(hist.prev)
     /\ hist.prev.score + POINTS_PER_FOOD >= WINNING_SCORE) =>
        /\ gameState.status = "WON"
        /\ ~SpawnsFood(hist.prev, boardSize)
        /\ gameState.food = hist.prev.food
        /\ gameState.food = gameState.snake[1]
        /\ gameState.snake = <<HeadTarget(hist.prev)>> \o hist.prev.snake

\* The tenth food has been eaten while cells of the board were still free.
C27_Witness ==
    /\ TickedWhilePlaying
    /\ hist.prev.score = WINNING_SCORE - POINTS_PER_FOOD
    /\ gameState.status = "WON"
    /\ gameState.score = WINNING_SCORE
    /\ gameState.food = gameState.snake[1]
    /\ Len(gameState.snake) = Len(hist.prev.snake) + 1
    /\ Cardinality(CellsOf(gameState.snake)) < boardSize * boardSize

\* C28: after a tick of a PLAYING state that eats food and leaves the game
\* PLAYING, the new food is a cell of the board that is on no segment of the
\* grown snake; the head of the grown snake being the eaten food, the new
\* food differs from the eaten one.
C28_NewFoodIsFree ==
    (TickedWhilePlaying /\ Eats(hist.prev) /\ gameState.status = "PLAYING") =>
        /\ gameState.food.x \in 0..(boardSize - 1)
        /\ gameState.food.y \in 0..(boardSize - 1)
        /\ \A i \in 1..Len(gameState.snake) : gameState.snake[i] # gameState.food
        /\ gameState.snake[1] = hist.prev.food
        /\ gameState.food # hist.prev.food

\* A snake that had already grown has eaten again and the game goes on.
C28_Witness ==
    /\ TickedWhilePlaying
    /\ hist.prev.score > 0
    /\ hist.prev.food = gameState.snake[1]
    /\ Len(gameState.snake) = Len(hist.prev.snake) + 1
    /\ gameState.status = "PLAYING"
    /\ gameState.food \in AllCells(boardSize) \ CellsOf(gameState.snake)

\* C29: in every reachable state the boardSize field of the game state is the
\* board size a tick uses for its wall check and for placing food, also after
\* the hook was called again with another boardSize while a game exists; a
\* tick and a direction request never change the field.
C29_BoardSizeField ==
    /\ gameState.boardSize = boardSize
    /\ (Ticked \/ Requested) => gameState.boardSize = hist.prev.boardSize

\* The hook was called again with a smaller boardSize during a game, and a
\* tick has ended the game at a wall although the target cell of the head is
\* inside the board the state records.
C29_WallInsideBoard ==
    /\ TickedWhilePlaying
    /\ gameState.status = "GAME_OVER"
    /\ gameState.boardSize > boardSize
    /\ OnBoard(HeadTarget(hist.prev), gameState.boardSize)
    /\ HeadTarget(hist.prev) \notin CellsOf(hist.prev.snake)

\* The same with a larger boardSize: a tick has placed food outside the board
\* the state records.
C29_FoodOutsideBoard ==
    /\ TickedWhilePlaying
    /\ gameState.status = "PLAYING"
    /\ gameState.boardSize < boardSize
    /\ ~OnBoard(gameState.food, gameState.boardSize)

\* A tick and a direction request leave the field as it was.
C29_FieldKept ==
    (Ticked \/ Requested) => gameState.boardSize = hist.prev.boardSize

\* C30: in every state reachable after construction or startGame, whatever
\* the status, the score is POINTS_PER_FOOD times the number of segments the
\* snake has gained over INITIAL_SNAKE_LENGTH.
C30_ScoreIsGrowth ==
    gameState.score = POINTS_PER_FOOD * (Len(gameState.snake) - INITIAL_SNAKE_LENGTH)

\* A game lost after the snake had grown by at least two segments.
C30_Witness ==
    /\ Ticked
    /\ gameState.status = "GAME_OVER"
    /\ Len(gameState.snake) >= INITIAL_SNAKE_LENGTH + 2
    /\ gameState.score = POINTS_PER_FOOD * (Len(gameState.snake) - INITIAL_SNAKE_LENGTH)

\* The other statuses: a game won by its score, a game going on with a grown
\* snake, and the state before any game.
C30_Won ==
    /\ gameState.status = "WON"
    /\ gameState.score = WINNING_SCORE
    /\ Len(gameState.snake) = INITIAL_SNAKE_LENGTH + WINNING_SCORE \div POINTS_PER_FOOD

C30_Playing ==
    gameState.status = "PLAYING" /\ gameState.score = POINTS_PER_FOOD /\ hist.op = "moveSnake"

C30_NotStarted ==
    gameState.status = "NOT_STARTED" /\ gameState.score = 0 /\ Len(gameState.snake) = INITIAL_SNAKE_LENGTH

\* C31: in every reachable state whose status is PLAYING, NOT_STARTED or
\* GAME_OVER, 0 <= score < WINNING_SCORE; in every reachable state, whatever
\* the status, 0 <= score <= WINNING_SCORE + POINTS_PER_FOOD - 1; and no tick
\* and no direction request lowers the score (only startGame resets it).
C31_ScoreRange ==
    /\ gameState.status \in {"PLAYING", "NOT_STARTED", "GAME_OVER"} =>
           (0 <= gameState.score /\ gameState.score < WINNING_SCORE)
    /\ 0 <= gameState.score
    /\ gameState.score <= WINNING_SCORE + POINTS_PER_FOOD - 1
    /\ (Ticked \/ Requested) => gameState.score >= hist.prev.score

\* A tick has raised the score to the highest value a game going on can have.
C31_Witness ==
    /\ TickedWhilePlaying
    /\ gameState.status = "PLAYING"
    /\ gameState.score = WINNING_SCORE - POINTS_PER_FOOD
    /\ gameState.score > hist.prev.score

\* A game lost with that score, and the score kept by a request.
C31_LostAtTopScore ==
    Ticked /\ gameState.status = "GAME_OVER" /\ gameState.score = WINNING_SCORE - POINTS_PER_FOOD

C31_RequestKeepsScore ==
    RequestedWhilePlaying /\ gameState.score > 0 /\ gameState.score = hist.prev.score

\* C32: a tick of a reachable PLAYING state whose new head is the food never
\* ends GAME_OVER: the food is a cell of the board and on no segment of the
\* snake, so neither the wall check nor the collision check against the whole
\* snake, made when food is eaten, fires; the snake grows instead.
C32_EatingNeverLoses ==
    (TickedWhilePlaying /\ HeadTarget(hist.prev) = hist.prev.food) =>
        /\ gameState.status # "GAME_OVER"
        /\ \A i \in 1..Len(hist.prev.snake) : hist.prev.snake[i] # hist.prev.food
        /\ OnBoard(hist.prev.food, boardSize)
        /\ Len(gameState.snake) = Len(hist.prev.snake) + 1

\* A snake long enough to run into itself has moved onto the food, and the
\* game goes on.
C32_Witness ==
    /\ TickedWhilePlaying
    /\ HeadTarget(hist.prev) = hist.prev.food
    /\ Len(hist.prev.snake) >= 5
    /\ gameState.status = "PLAYING"
    /\ gameState.snake[1] = hist.prev.food

\* C33: once a game is started, if the interval callbacks keep coming and no
\* direction request is accepted, the game is over (GAME_OVER or WON) after
\* at most boardSize ticks: a game that is still PLAYING has seen fewer than
\* boardSize ticks, and the snake has kept its direction all along.
C33_StraightLineEnds ==
    /\ gameState.status = "PLAYING" => ticks < boardSize
    /\ (gameState.status # "NOT_STARTED" /\ ticks >= boardSize) =>
           gameState.status \in {"GAME_OVER", "WON"}
    /\ (TickedWhilePlaying /\ ticks >= 1) =>
           (hist.prev.nextDirection = NoDirection /\ gameState.direction = hist.prev.direction)

\* A started game ran straight into the wall: the last of at least two ticks
\* since startGame has ended it.
C33_Witness ==
    /\ TickedWhilePlaying
    /\ ticks >= 2
    /\ ticks <= boardSize
    /\ HitsWall(hist.prev)
    /\ gameState.status = "GAME_OVER"
    /\ gameState.direction = hist.prev.direction

\* The callbacks went on after the end: the count has passed boardSize.
C33_PastTheBound ==
    ticks > boardSize /\ gameState.status = "GAME_OVER"

\* C34: tick and requestDirection are total on the reachable states: from
\* every state reached by construction, startGame, direction requests and
\* ticks on a board of valid size, each of them returns a state, and in the
\* returned state every segment of the snake and the food are cells of the
\* board.
C34_TotalAndValid ==
    (Ticked \/ Requested) =>
        /\ gameState.status \in GameStatuses
        /\ \A i \in 1..Len(gameState.snake) : OnBoard(gameState.snake[i], boardSize)
        /\ OnBoard(gameState.food, boardSize)

\* What does hold: a tick or a request applied to a state whose segments and
\* food are cells of the board returns such a state.
C34_ValidityKept ==
    ( /\ Ticked \/ Requested
      /\ \A i \in 1..Len(hist.prev.snake) : OnBoard(hist.prev.snake[i], boardSize)
      /\ OnBoard(hist.prev.food, boardSize) ) =>
        /\ gameState.status \in GameStatuses
        /\ \A i \in 1..Len(gameState.snake) : OnBoard(gameState.snake[i], boardSize)
        /\ OnBoard(gameState.food, boardSize)

\* On the smallest valid board a tick has returned a grown snake whose tail is
\* still outside the board.
C34_GrownOffBoard ==
    /\ TickedWhilePlaying
    /\ boardSize = INITIAL_SNAKE_LENGTH
    /\ Len(gameState.snake) = INITIAL_SNAKE_LENGTH + 1
    /\ gameState.snake[Len(gameState.snake)].x < 0

\* C35: isOppositeDirection(a, b) is true exactly for the ordered pairs
\* (UP,DOWN), (DOWN,UP), (LEFT,RIGHT), (RIGHT,LEFT): it is symmetric, false
\* when a = b and false for every perpendicular pair; and each request made
\* in a PLAYING state is rejected or accepted accordingly.
C35_OppositeTable ==
    LET Vertical   == {"UP", "DOWN"}
        Horizontal == {"LEFT", "RIGHT"}
        TruePairs  == {<<"UP", "DOWN">>, <<"DOWN", "UP">>,
                       <<"LEFT", "RIGHT">>, <<"RIGHT", "LEFT">>}
    IN  /\ \A a, b \in Directions :
               /\ isOppositeDirection(a, b) <=> (<<a, b>> \in TruePairs)
               /\ isOppositeDirection(a, b) <=> isOppositeDirection(b, a)
               /\ a = b => ~isOppositeDirection(a, b)
               /\ ((a \in Vertical /\ b \in Horizontal) \/ (a \in Horizontal /\ b \in Vertical))
                     => ~isOppositeDirection(a, b)
        /\ RequestedWhilePlaying =>
               LET last == IF hist.prev.nextDirection \in Directions
                           THEN hist.prev.nextDirection ELSE hist.prev.direction
               IN  IF <<last, hist.arg>> \in TruePairs
                   THEN gameState = hist.prev
                   ELSE gameState.nextDirection = hist.arg

\* The function has been applied to (LEFT, RIGHT) and to an equal pair: a
\* request for RIGHT was rejected while LEFT was queued, and a request for the
\* queued direction itself was accepted.
C35_Witness ==
    /\ RequestedWhilePlaying
    /\ hist.prev.nextDirection = "LEFT"
    /\ hist.arg = "RIGHT"
    /\ gameState.nextDirection = "LEFT"

C35_EqualPair ==
    /\ RequestedWhilePlaying
    /\ hist.prev.nextDirection = "DOWN"
    /\ hist.arg = "DOWN"
    /\ gameState.nextDirection = "DOWN"
====
